---------------------------- MODULE Spec2Model ----------------------------
(***************************************************************************)
(* Model of meeting-dashboard: the action-item extraction of sync.js       *)
(* (extractActionItems), the sync run around it (run) and the store        *)
(* operations of update.js.                                                *)
(*                                                                         *)
(* Text is modelled as TLA+ strings: Len(s) is s.length and SubSeq(s,m,n)  *)
(* is s.slice(m-1, n).  Positions below are 1-based.  Strings are ASCII,   *)
(* so the third bullet marker of the source, U+2022, has no literal here;  *)
(* the class [-*U+2022] is modelled by its two ASCII members.             *)
(***************************************************************************)
EXTENDS Integers, Sequences, FiniteSets, TLC

(***************************************************************************)
(* Characters and the string primitives the source uses.                   *)
(***************************************************************************)

\* s[k-1], or "" past the end of s
Ch(s, k) == IF k >= 1 /\ k <= Len(s) THEN SubSeq(s, k, k) ELSE ""

\* the members of \s that can occur inside one line of split("\n")
WhiteSpace == {" ", "\t", "\r"}

\* the characters "." does not match (\n never occurs inside a line)
LineTerminators == {"\r"}

UpperLetters == "ABCDEFGHIJKLMNOPQRSTUVWXYZ"

LowerLetters == "abcdefghijklmnopqrstuvwxyz"

UpperSet == {Ch(UpperLetters, k) : k \in 1..26}

LowerSet == {Ch(LowerLetters, k) : k \in 1..26}

DigitSet == {"0", "1", "2", "3", "4", "5", "6", "7", "8", "9"}

\* \w
WordChars == UpperSet \cup LowerSet \cup DigitSet \cup {"_"}

\* [-*U+2022]
BulletMarkers == {"-", "*"}

LowerOf == [c \in UpperSet |-> Ch(LowerLetters, CHOOSE k \in 1..26 : Ch(UpperLetters, k) = c)]

RECURSIVE LowerFrom(_, _)
LowerFrom(s, k) ==
  IF k > Len(s) THEN ""
  ELSE (IF Ch(s, k) \in UpperSet THEN LowerOf[Ch(s, k)] ELSE Ch(s, k)) \o LowerFrom(s, k + 1)

\* String.prototype.toLowerCase
toLowerCase(s) == LowerFrom(s, 1)

\* s.slice(k-1): the rest of s from position k
SliceFrom(s, k) == SubSeq(s, k, Len(s))

\* the position after \s* read greedily from position k
RECURSIVE SkipSpaces(_, _)
SkipSpaces(s, k) ==
  IF k <= Len(s) /\ Ch(s, k) \in WhiteSpace THEN SkipSpaces(s, k + 1) ELSE k

\* the last position that is not whitespace, at or before k (0 if none)
RECURSIVE LastNonSpace(_, _)
LastNonSpace(s, k) ==
  IF k >= 1 /\ Ch(s, k) \in WhiteSpace THEN LastNonSpace(s, k - 1) ELSE k

\* String.prototype.trim
trim(s) == SubSeq(s, SkipSpaces(s, 1), LastNonSpace(s, Len(s)))

\* the position after \w* read greedily from position k
RECURSIVE WordEnd(_, _)
WordEnd(s, k) ==
  IF k <= Len(s) /\ Ch(s, k) \in WordChars THEN WordEnd(s, k + 1) ELSE k

\* the position after [a-z]* read greedily from position k
RECURSIVE LowerRunEnd(_, _)
LowerRunEnd(s, k) ==
  IF k <= Len(s) /\ Ch(s, k) \in LowerSet THEN LowerRunEnd(s, k + 1) ELSE k

\* the position after .* read greedily from position k
RECURSIVE DotRunEnd(_, _)
DotRunEnd(s, k) ==
  IF k <= Len(s) /\ Ch(s, k) \notin LineTerminators THEN DotRunEnd(s, k + 1) ELSE k

\* the literal lit stands in s at position k
LitAt(s, k, lit) ==
  /\ k >= 1
  /\ k + Len(lit) - 1 <= Len(s)
  /\ SubSeq(s, k, k + Len(lit) - 1) = lit

\* String.prototype.startsWith
startsWith(s, lit) == LitAt(s, 1, lit)

\* String.prototype.includes
includes(s, lit) == \E k \in 1..(Len(s) + 1) : LitAt(s, k, lit)

\* name.split(" ")[0]
RECURSIVE FirstSpace(_, _)
FirstSpace(s, k) ==
  IF k <= Len(s) /\ Ch(s, k) # " " THEN FirstSpace(s, k + 1) ELSE k

firstToken(s) == SubSeq(s, 1, FirstSpace(s, 1) - 1)

(***************************************************************************)
(* The patterns of extractActionItems.  Case-insensitive patterns are      *)
(* matched on the lowercased line with lowercased literals.                *)
(***************************************************************************)

\* sectionPatterns.some(p => p.test(line))
IsSectionHeader(line) ==
  LET l == toLowerCase(line) IN
    \/ LitAt(l, 1, "next") /\ LitAt(l, SkipSpaces(l, 5), "steps")
    \/ LitAt(l, 1, "action") /\ LitAt(l, SkipSpaces(l, 7), "items")
    \/ /\ LitAt(l, 1, "follow")
       /\ \/ Ch(l, 7) \in {"-", " "} /\ LitAt(l, 8, "up")
          \/ LitAt(l, 7, "up")
    \/ /\ LitAt(l, 1, "to")
       /\ \/ Ch(l, 3) \in {"-", " "} /\ LitAt(l, 4, "do")
          \/ LitAt(l, 3, "do")
    \/ /\ LitAt(l, 1, "task")
       /\ \/ Ch(l, 5) = "s" /\ Ch(l, SkipSpaces(l, 6)) = ":"
          \/ Ch(l, SkipSpaces(l, 5)) = ":"
    \/ LitAt(l, 1, "deliverables")

\* /^[A-Z][a-z]+ [A-Z][a-z]+ &/
IsNamePairHeading(line) ==
  LET e1 == LowerRunEnd(line, 2)
      e2 == LowerRunEnd(line, e1 + 2)
  IN /\ Ch(line, 1) \in UpperSet
     /\ e1 > 2
     /\ Ch(line, e1) = " "
     /\ Ch(line, e1 + 1) \in UpperSet
     /\ e2 > e1 + 2
     /\ LitAt(line, e2, " &")

\* endPatterns.some(p => p.test(line))
IsSectionEnd(line) ==
  \/ LitAt(toLowerCase(line), 1, "chat with meeting transcript")
  \/ \E n \in 1..3 : /\ \A k \in 1..n : Ch(line, k) = "#"
                     /\ Ch(line, n + 1) \in WhiteSpace
  \/ IsNamePairHeading(line)

NoMatch == [ok |-> FALSE, name |-> "", len |-> 0]

\* line.match(/^(\w+(?:\s\w+)?)\s*:/): name is group 1, len is match[0].length
ownerMatch(line) ==
  LET w1 == WordEnd(line, 1)
      w2 == WordEnd(line, w1 + 1)
      c1 == SkipSpaces(line, w1)
      c2 == SkipSpaces(line, w2)
  IN IF w1 = 1 THEN NoMatch
     ELSE IF Ch(line, w1) \in WhiteSpace /\ w2 > w1 + 1 /\ Ch(line, c2) = ":"
       THEN [ok |-> TRUE, name |-> SubSeq(line, 1, w2 - 1), len |-> c2]
     ELSE IF Ch(line, c1) = ":"
       THEN [ok |-> TRUE, name |-> SubSeq(line, 1, w1 - 1), len |-> c1]
     ELSE NoMatch

\* Blake|Jacob|Brien|Cole|Cory|Ally|Jenna|Jennifer|Al, lowercased
KnownNames ==
  {"blake", "jacob", "brien", "cole", "cory", "ally", "jenna", "jennifer", "al"}

\* to|will|should|needs? to
Modals == {"to", "will", "should", "need to", "needs to"}

\* (?:to|will|should|needs? to) matches the lowercased line l at position k
ModalAt(l, k) == \E m \in Modals : LitAt(l, k, m)

\* the positions where (.+) can start when NAME\s+MODAL\s+(.+) is matched on the
\* lowercased line l from position p (empty: no match at p)
ActionBodies(l, p) ==
  UNION {
    LET b == SkipSpaces(l, p + Len(n)) IN
      {SkipSpaces(l, b + Len(m)) :
         m \in {x \in Modals :
                  LET d == SkipSpaces(l, b + Len(x))
                  IN /\ LitAt(l, b, x)
                     /\ Ch(l, b + Len(x)) \in WhiteSpace
                     /\ d <= Len(l)
                     /\ Ch(l, d) \notin LineTerminators}} :
    n \in {x \in KnownNames : LitAt(l, p, x) /\ Ch(l, p + Len(x)) \in WhiteSpace}}

\* line.match(actionPatterns[0]): text is match[0], the leftmost match
actionMatch(line) ==
  LET l == toLowerCase(line)
      starts == {p \in 1..Len(l) : ActionBodies(l, p) # {}}
  IN IF starts = {} THEN [ok |-> FALSE, text |-> ""]
     ELSE LET p == CHOOSE p \in starts : \A q \in starts : p <= q
          IN [ok |-> TRUE,
              text |-> SubSeq(line, p,
                              DotRunEnd(l, CHOOSE d \in ActionBodies(l, p) : TRUE) - 1)]

\* line.match(/^(\w+(?:\s\w+)?)\s+(?:to|will|should|needs? to)/i): name is group 1
ownerNameMatch(line) ==
  LET l == toLowerCase(line)
      w1 == WordEnd(l, 1)
      w2 == WordEnd(l, w1 + 1)
  IN IF w1 = 1 THEN NoMatch
     ELSE IF /\ Ch(l, w1) \in WhiteSpace
             /\ w2 > w1 + 1
             /\ Ch(l, w2) \in WhiteSpace
             /\ ModalAt(l, SkipSpaces(l, w2))
       THEN [ok |-> TRUE, name |-> SubSeq(line, 1, w2 - 1), len |-> 0]
     ELSE IF Ch(l, w1) \in WhiteSpace /\ ModalAt(l, SkipSpaces(l, w1))
       THEN [ok |-> TRUE, name |-> SubSeq(line, 1, w1 - 1), len |-> 0]
     ELSE NoMatch

\* a variant of stripBullet that removes the marker and leaves the whitespace after it
stripBulletOnly(line) ==
  IF Ch(line, 1) \in BulletMarkers THEN SliceFrom(line, 2) ELSE line

\* line.replace(/^[-*U+2022]\s*/, "")
stripBullet(line) ==
  IF Ch(line, 1) \in BulletMarkers THEN SliceFrom(line, SkipSpaces(line, 2)) ELSE line


(***************************************************************************)
(* extractActionItems: the scan over the lines and the deduplication.      *)
(* A candidate is {item, owner} as in the source; the fields line and rule *)
(* are history (the index of the line that produced it and the branch      *)
(* that pushed it) and are read by no definition of the program.           *)
(***************************************************************************)

\* let owner = "Blake"; // default
DefaultOwner == "Blake"

\* line.length > 10
MinContentLen == 10

\* slice(0, 50)
KeyLen == 50

\* the test of one attendee name against the line, lines 146-149
mentions(line, name) ==
  LET f == toLowerCase(firstToken(name))
      l == toLowerCase(line)
  IN \/ includes(l, f \o " to ")
     \/ includes(l, f \o " will ")
     \/ startsWith(l, f)

\* a variant of detectOwner without the break: the last attendee that matches
detectOwnerLast(line, names) ==
  LET hits == {k \in 1..Len(names) : mentions(line, names[k])}
  IN IF hits = {} THEN DefaultOwner
     ELSE names[CHOOSE k \in hits : \A j \in hits : k >= j]

\* the loop over the attendees with its break: the first attendee that matches
detectOwner(line, names) ==
  LET hits == {k \in 1..Len(names) : mentions(line, names[k])}
  IN IF hits = {} THEN DefaultOwner
     ELSE names[CHOOSE k \in hits : \A j \in hits : k <= j]

\* a variant of ownerOr that drops the fallback: a null currentOwner gives no owner
ownerOrNothing(cur, owner) == IF cur # <<>> THEN cur[1] ELSE ""

\* currentOwner is <<>> for null, <<name>> once set; this is currentOwner || owner
ownerOr(cur, owner) == IF cur # <<>> /\ cur[1] # "" THEN cur[1] ELSE owner

\* what one loop iteration computes from lines[i] and the attendees alone:
\* the trimmed line, the tests of lines 113-129 and 142, and the candidate each
\* pushing branch would build (owner is the owner detected by lines 144-153)
Classify(raw, names) ==
  LET line == trim(raw)
      om == ownerMatch(line)
      am == actionMatch(line)
      on == ownerNameMatch(line)
  IN [line |-> line,
      header |-> IsSectionHeader(line),
      end |-> IsSectionEnd(line),
      prefix |-> om.ok,
      prefixName |-> om.name,
      rest |-> IF om.ok THEN trim(SliceFrom(line, om.len + 1)) ELSE "",
      long |-> Len(line) > MinContentLen,
      stripped |-> stripBullet(line),
      detected |-> detectOwner(line, names),
      action |-> am.ok,
      actionText |-> am.text,
      actionOwner |-> IF on.ok THEN on.name ELSE DefaultOwner]

\* a variant of LineKind whose owner-prefix branch does not test inActionSection
LineKindOwnerAnywhere(f, inSection) ==
  IF f.line = "" THEN "blank"
  ELSE IF f.header THEN "header"
  ELSE IF f.end /\ inSection THEN "end"
  ELSE IF f.prefix THEN "owner"
  ELSE IF inSection THEN "inside"
  ELSE "outside"

\* a variant of LineKind that tests the terminator patterns before the headers
LineKindEndFirst(f, inSection) ==
  IF f.line = "" THEN "blank"
  ELSE IF f.end /\ inSection THEN "end"
  ELSE IF f.header THEN "header"
  ELSE IF f.prefix /\ inSection THEN "owner"
  ELSE IF inSection THEN "inside"
  ELSE "outside"

\* the branch one loop iteration takes
LineKind(f, inSection) ==
  IF f.line = "" THEN "blank"
  ELSE IF f.header THEN "header"
  ELSE IF f.end /\ inSection THEN "end"
  ELSE IF f.prefix /\ inSection THEN "owner"
  ELSE IF inSection THEN "inside"
  ELSE "outside"

\* the candidates pushed by the owner-prefix branch, lines 129-139
ownerItems(f, idx) ==
  IF f.rest # ""
    THEN <<[item |-> f.rest, owner |-> f.prefixName, line |-> idx, rule |-> "owner"]>>
    ELSE <<>>

\* the candidates pushed by the in-section branch, lines 142-158
plainItems(f, idx, cur) ==
  IF f.long
    THEN <<[item |-> f.stripped, owner |-> ownerOr(cur, f.detected),
            line |-> idx, rule |-> "plain"]>>
    ELSE <<>>

\* the candidates pushed by the standalone branch, lines 161-175
standaloneItems(f, idx) ==
  IF f.action
    THEN <<[item |-> f.actionText, owner |-> f.actionOwner,
            line |-> idx, rule |-> "standalone"]>>
    ELSE <<>>

\* a variant of Step whose terminator branch leaves inActionSection set
StepNeverLeaves(st, f, idx) ==
  LET kind == LineKind(f, st.inActionSection)
  IN CASE kind = "blank" -> st
       [] kind = "header" -> [st EXCEPT !.inActionSection = TRUE]
       [] kind = "end" -> st
       [] kind = "owner" ->
            [st EXCEPT !.currentOwner = <<f.prefixName>>,
                       !.items = st.items \o ownerItems(f, idx)]
       [] kind = "inside" ->
            [st EXCEPT !.items = st.items \o plainItems(f, idx, st.currentOwner)]
       [] kind = "outside" ->
            [st EXCEPT !.items = st.items \o standaloneItems(f, idx)]

\* a variant of Step whose standalone rule also runs on lines inside a section
StepStandaloneToo(st, f, idx) ==
  LET kind == LineKind(f, st.inActionSection)
  IN CASE kind = "blank" -> st
       [] kind = "header" -> [st EXCEPT !.inActionSection = TRUE]
       [] kind = "end" -> [st EXCEPT !.inActionSection = FALSE]
       [] kind = "owner" ->
            [st EXCEPT !.currentOwner = <<f.prefixName>>,
                       !.items = st.items \o ownerItems(f, idx)]
       [] kind = "inside" ->
            [st EXCEPT !.items = st.items \o plainItems(f, idx, st.currentOwner)
                                          \o standaloneItems(f, idx)]
       [] kind = "outside" ->
            [st EXCEPT !.items = st.items \o standaloneItems(f, idx)]

\* a variant of Step whose terminator branch also forgets the carried owner
StepEndForgetsOwner(st, f, idx) ==
  LET kind == LineKind(f, st.inActionSection)
  IN CASE kind = "blank" -> st
       [] kind = "header" -> [st EXCEPT !.inActionSection = TRUE]
       [] kind = "end" -> [st EXCEPT !.inActionSection = FALSE, !.currentOwner = <<>>]
       [] kind = "owner" ->
            [st EXCEPT !.currentOwner = <<f.prefixName>>,
                       !.items = st.items \o ownerItems(f, idx)]
       [] kind = "inside" ->
            [st EXCEPT !.items = st.items \o plainItems(f, idx, st.currentOwner)]
       [] kind = "outside" ->
            [st EXCEPT !.items = st.items \o standaloneItems(f, idx)]

\* one iteration of the for loop, lines 111-176, on the line at 0-based index idx
\* whose facts are f
Step(st, f, idx) ==
  LET kind == LineKind(f, st.inActionSection)
  IN CASE kind = "blank" -> st
       [] kind = "header" -> [st EXCEPT !.inActionSection = TRUE]
       [] kind = "end" -> [st EXCEPT !.inActionSection = FALSE]
       [] kind = "owner" ->
            [st EXCEPT !.currentOwner = <<f.prefixName>>,
                       !.items = st.items \o ownerItems(f, idx)]
       [] kind = "inside" ->
            [st EXCEPT !.items = st.items \o plainItems(f, idx, st.currentOwner)]
       [] kind = "outside" ->
            [st EXCEPT !.items = st.items \o standaloneItems(f, idx)]

(***************************************************************************)
(* The inputs of the extraction specification.                             *)
(***************************************************************************)

\* the longest panel text explored, in lines
MaxLines == 3

\* raw lines of panelText.split("\n"), before trim
LinePool ==
  { "Next Steps",
    "  ## Summary",
    "Blake: send the deck",
    "Cole: * book the room",
    "Jenna will send invites",
    "Jacob needs to review the contract",
    "Then Cole to ask Jenna to sign",
    "- * update the roadmap",
    "Cory to call \rback",
    "\t ",
    "Send the revised quarterly budget to the team by 10 June",
    "SEND the revised quarterly budget to the team by 11 June",
    "Send the revised quarterly budget to the team by 20 June" }

\* raw lines for the section state machine: a header, a line that is header and
\* terminator at once, terminators with and without a sentence, owner-prefix
\* lines (long, short, without text), a short and a long plain line, a blank
SectionPool ==
  { "Next Steps",
    "Next Steps & owners",
    "  ## Summary",
    "## Cole will sign",
    "Blake: send the deck",
    "Al: go",
    "Cory:",
    "- call Al",
    "Jenna will send invites",
    "\t " }

\* raw lines for the carried owner
CarryPool ==
  { "Next Steps",
    "  ## Summary",
    "Blake: send the deck",
    "Cory:",
    "Jenna will send invites",
    "\t " }

MaxCarryLines == 5

AttendeeLists == { <<"Jenna Smith", "Cole Diaz">>, <<"Cole Diaz", "Jenna Smith">> }

PanelTexts == UNION {[1..n -> LinePool] : n \in 0..MaxLines}

\* the panel texts of a call that follows a call with other arguments
NextTexts == {<<>>} \cup {<<l>> : l \in LinePool}

\* the panel texts and the attendee list of the section and carry checks
SectionTexts == UNION {[1..n -> SectionPool] : n \in 0..MaxLines}

CarryTexts == UNION {[1..n -> CarryPool] : n \in 0..MaxCarryLines}

SectionLists == { <<"Jenna Smith", "Cole Diaz">> }

(***************************************************************************)
(* The helpers of sync.js around the extraction.                           *)
(***************************************************************************)

\* the position of the first ">" at or after k (0 if none)
RECURSIVE NextGt(_, _)
NextGt(s, k) ==
  IF k > Len(s) THEN 0 ELSE IF Ch(s, k) = ">" THEN k ELSE NextGt(s, k + 1)

\* replace(/<[^>]+>/g, " ")
RECURSIVE StripTagsFrom(_, _)
StripTagsFrom(s, k) ==
  IF k > Len(s) THEN ""
  ELSE IF Ch(s, k) = "<" /\ NextGt(s, k + 1) > k + 1
    THEN " " \o StripTagsFrom(s, NextGt(s, k + 1) + 1)
  ELSE Ch(s, k) \o StripTagsFrom(s, k + 1)

\* replace(/lit/g, by) for a literal
RECURSIVE ReplaceAllFrom(_, _, _, _)
ReplaceAllFrom(s, k, lit, by) ==
  IF k > Len(s) THEN ""
  ELSE IF LitAt(s, k, lit) THEN by \o ReplaceAllFrom(s, k + Len(lit), lit, by)
  ELSE Ch(s, k) \o ReplaceAllFrom(s, k + 1, lit, by)

\* the whole of \s: inside html a line feed can occur too
HtmlSpace == WhiteSpace \cup {"\n"}

\* replace(/\s+/g, " ")
RECURSIVE CollapseFrom(_, _)
CollapseFrom(s, k) ==
  IF k > Len(s) THEN ""
  ELSE IF Ch(s, k) \in HtmlSpace
    THEN (IF k > 1 /\ Ch(s, k - 1) \in HtmlSpace THEN "" ELSE " ") \o CollapseFrom(s, k + 1)
  ELSE Ch(s, k) \o CollapseFrom(s, k + 1)

\* stripHtml(html), lines 57-66
stripHtml(html) ==
  LET a == StripTagsFrom(html, 1)
      b == ReplaceAllFrom(a, 1, "&nbsp;", " ")
      c == ReplaceAllFrom(b, 1, "&amp;", "&")
      d == ReplaceAllFrom(c, 1, "&lt;", "<")
      e == ReplaceAllFrom(d, 1, "&gt;", ">")
  IN trim(CollapseFrom(e, 1))

\* [...new Set(names)]: the first occurrence of each name, in order
RECURSIVE Distinct(_)
Distinct(seq) ==
  IF seq = <<>> THEN <<>>
  ELSE LET init == Distinct(SubSeq(seq, 1, Len(seq) - 1))
           last == seq[Len(seq)]
       IN IF \E k \in 1..Len(init) : init[k] = last THEN init ELSE Append(init, last)

\* getAttendeeNames(doc), lines 68-77; "" stands for a missing field
getAttendeeNames(doc) ==
  Distinct((IF doc.creator # "" THEN <<doc.creator>> ELSE <<>>) \o
           [k \in 1..Len(doc.attendees) |->
              IF doc.attendees[k].fullName # "" THEN doc.attendees[k].fullName
              ELSE IF doc.attendees[k].email # "" THEN doc.attendees[k].email
              ELSE "Unknown"])

\* a variant of nextId that counts the items
nextIdByCount(its) == Len(its) + 1

\* nextId(items), lines 79-82 (update.js lines 29-32 are the same function)
nextId(its) ==
  IF its = <<>> THEN 1
  ELSE (CHOOSE m \in {its[k].id : k \in 1..Len(its)} :
          \A k \in 1..Len(its) : its[k].id <= m) + 1

\* Object.values(docPanels).sort((a, b) => (a.order || 0) - (b.order || 0));
\* the catalog gives the panels of a meeting distinct orders
RECURSIVE SortPanels(_)
SortPanels(ps) ==
  IF ps = {} THEN <<>>
  ELSE LET p == CHOOSE p \in ps : \A q \in ps : p.order <= q.order
       IN <<p>> \o SortPanels(ps \ {p})

\* panelText.split("\n") of the text built at lines 234-241: per panel the title
\* with a colon and the stripped content, an empty line between panels
RECURSIVE PanelLines(_)
PanelLines(ps) ==
  IF ps = <<>> THEN <<>>
  ELSE <<ps[1].title \o ":", stripHtml(ps[1].content)>> \o
       (IF Len(ps) > 1 THEN <<"">> \o PanelLines(Tail(ps)) ELSE <<>>)

(***************************************************************************)
(* The documents the Granola cache can hold.  created is the time of       *)
(* created_at (distinct per document), date its ISO day.                   *)
(***************************************************************************)

MeetingIds == {"m1", "m2", "m3"}

Catalog ==
  [m \in MeetingIds |->
     CASE m = "m1" ->
            [title |-> "Standup", created |-> 1, date |-> "2026-01-05",
             creator |-> "Blake Corbit",
             attendees |-> <<[fullName |-> "Jenna Smith", email |-> "jenna@example.com"],
                             [fullName |-> "", email |-> "cole@example.com"]>>,
             panels |-> {[title |-> "Summary", order |-> 0,
                          content |-> "<p>Jacob to review the contract</p>"],
                         [title |-> "Next Steps", order |-> 1,
                          content |-> "<ul>\n<li>Jenna will send&nbsp;invites</li>\n</ul>"]}]
       [] m = "m2" ->
            [title |-> "Standup", created |-> 2, date |-> "2026-01-05",
             creator |-> "Blake Corbit",
             attendees |-> <<[fullName |-> "", email |-> ""],
                             [fullName |-> "Blake Corbit", email |-> ""]>>,
             panels |-> {[title |-> "Notes", order |-> 0,
                          content |-> "<p>Cole will book the room &amp; the bus</p>"]}]
       [] m = "m3" ->
            [title |-> "", created |-> 3, date |-> "2026-01-06",
             creator |-> "",
             attendees |-> <<>>,
             panels |-> {[title |-> "Summary", order |-> 0,
                          content |-> "<b>No decisions</b>"]}]]

\* meeting.title || "Untitled"
TitleOf(m) == IF Catalog[m].title # "" THEN Catalog[m].title ELSE "Untitled"

(***************************************************************************)
(* Classify and the deduplication key are pure and costly to evaluate, so  *)
(* they are tabulated once over the lines and attendee lists explored.     *)
(***************************************************************************)

\* the lines of the panel texts of the catalog
CatalogLines ==
  UNION {{PanelLines(SortPanels(Catalog[m].panels))[k] :
            k \in 1..Len(PanelLines(SortPanels(Catalog[m].panels)))} : m \in MeetingIds}

KnownLines == LinePool \cup SectionPool \cup CarryPool \cup CatalogLines

KnownLists == AttendeeLists \cup {getAttendeeNames(Catalog[m]) : m \in MeetingIds}

Facts == [raw \in KnownLines |-> [names \in KnownLists |-> Classify(raw, names)]]

FactsOf(raw, names) == Facts[raw][names]

\* a variant of DedupKey that compares case-sensitively
DedupKeyCased(text) ==
  SubSeq(text, 1, IF Len(text) < KeyLen THEN Len(text) ELSE KeyLen)

\* item.item.toLowerCase().slice(0, 50)
DedupKey(text) ==
  LET l == toLowerCase(text)
  IN SubSeq(l, 1, IF Len(l) < KeyLen THEN Len(l) ELSE KeyLen)

\* every candidate text a known line can produce
PoolTexts ==
  UNION {{Facts[raw][names].rest, Facts[raw][names].stripped, Facts[raw][names].actionText} :
           raw \in KnownLines, names \in KnownLists}

Keys == [t \in PoolTexts |-> DedupKey(t)]

KeyOf(it) == Keys[it.item]

\* items.filter(...) with the seen set, lines 179-185
RECURSIVE DedupFrom(_, _, _)
DedupFrom(its, k, seen) ==
  IF k > Len(its) THEN <<>>
  ELSE IF KeyOf(its[k]) \in seen THEN DedupFrom(its, k + 1, seen)
  ELSE <<its[k]>> \o DedupFrom(its, k + 1, seen \cup {KeyOf(its[k])})

Dedup(its) == DedupFrom(its, 1, {})

\* the locals of a call as declared, lines 88-92
InitScan == [inActionSection |-> FALSE, currentOwner |-> <<>>, items |-> <<>>]

RECURSIVE ScanFrom(_, _, _, _)
ScanFrom(st, ls, k, names) ==
  IF k > Len(ls) THEN st
  ELSE ScanFrom(Step(st, FactsOf(ls[k], names), k - 1), ls, k + 1, names)

\* extractActionItems(panelText, title, date, attendees), ls = panelText.split("\n")
extractActionItems(ls, names) == Dedup(ScanFrom(InitScan, ls, 1, names).items)

\* what lines 226-244 compute for a document: attendees and extracted items
Prepared ==
  [m \in MeetingIds |->
     LET names == getAttendeeNames(Catalog[m])
     IN [attendees |-> names,
         extracted |-> extractActionItems(PanelLines(SortPanels(Catalog[m].panels)), names)]]

\* .sort((a, b) => new Date(a.created_at) - new Date(b.created_at))
RECURSIVE SortByCreated(_)
SortByCreated(ms) ==
  IF ms = {} THEN <<>>
  ELSE LET m == CHOOSE m \in ms : \A n \in ms : Catalog[m].created <= Catalog[n].created
       IN <<m>> \o SortByCreated(ms \ {m})

(***************************************************************************)
(* State.  The first group is one call of extractActionItems after         *)
(* another; lastCall is history: the input and result of the call before,  *)
(* kept when the next call repeats its input.                              *)
(***************************************************************************)
VARIABLES
  lines,            \* panelText.split("\n") of the current call
  attendees,        \* the attendees argument of the current call
  i,                \* the loop index, 0-based
  inActionSection,  \* let inActionSection
  currentOwner,     \* let currentOwner: <<>> is null
  items,            \* const items
  result,           \* the returned list
  pc,               \* "scan" inside the loop, "returned" after the return
  lastCall,         \* <<>> or <<[lines, attendees, result]>> of the call before
  closed,           \* history: a terminator closed the section, no header since
  afterEnd,         \* history: indices of the lines read while closed
  readInside,       \* history: indices of the lines read with inActionSection set
  docState,         \* per catalog document: "bare" (no panels yet), "ready", "deleted"
  dataFile,         \* data.json
  stateFile,        \* .sync-state.json
  repo,             \* data.json against git: "dirty", "committed" or "pushed"
  rpc,              \* where the sync run is: "idle" when no run is going on
  data,             \* const data of run()
  processedSet,     \* const processedSet of run(), in insertion order
  newMeetings,      \* const newMeetings of run()
  mi,               \* the position of the for loop in newMeetings, 1-based
  totalNewItems,    \* let totalNewItems
  outcome           \* the last thing the run logged

scanVars ==
  <<lines, attendees, i, inActionSection, currentOwner, items, result, pc, lastCall,
    closed, afterEnd, readInside>>

syncVars ==
  <<docState, dataFile, stateFile, repo, rpc, data, processedSet,
    newMeetings, mi, totalNewItems, outcome>>

vars == <<scanVars, syncVars>>

\* the locals of the running call as one record
Locals == [inActionSection |-> inActionSection, currentOwner |-> currentOwner, items |-> items]

\* the facts of the line the loop is at
CurFacts == FactsOf(lines[i + 1], attendees)

\* a variant of ResetLocals that keeps the flag and the owner of the call before
ResetItemsOnly(st) == [st EXCEPT !.items = <<>>]

\* the locals as declared at the top of a call
ResetLocals(st) == InitScan

\* entering extractActionItems: the locals are declared afresh, lines 88-92
Enter(ls, names) ==
  /\ lines' = ls
  /\ attendees' = names
  /\ i' = 0
  /\ inActionSection' = ResetLocals(Locals).inActionSection
  /\ currentOwner' = ResetLocals(Locals).currentOwner
  /\ items' = ResetLocals(Locals).items
  /\ result' = <<>>
  /\ pc' = "scan"
  /\ closed' = FALSE
  /\ afterEnd' = {}
  /\ readInside' = {}
  /\ UNCHANGED syncVars

ScanInit ==
  /\ lines \in PanelTexts
  /\ attendees \in AttendeeLists
  /\ i = 0
  /\ inActionSection = InitScan.inActionSection
  /\ currentOwner = InitScan.currentOwner
  /\ items = InitScan.items
  /\ result = <<>>
  /\ pc = "scan"
  /\ lastCall = <<>>
  /\ closed = FALSE
  /\ afterEnd = {}
  /\ readInside = {}

\* the loop is at a line that takes branch kind
AtKind(kind) ==
  /\ pc = "scan"
  /\ i < Len(lines)
  /\ LineKind(CurFacts, inActionSection) = kind

\* the loop body runs on lines[i] and the loop moves on
Advance ==
  /\ LET st == Step(Locals, CurFacts, i)
     IN /\ inActionSection' = st.inActionSection
        /\ currentOwner' = st.currentOwner
        /\ items' = st.items
  /\ i' = i + 1
  /\ LET kind == LineKind(CurFacts, inActionSection)
     IN /\ closed' = IF kind = "end" THEN TRUE ELSE IF kind = "header" THEN FALSE ELSE closed
        /\ afterEnd' = IF closed /\ kind \notin {"blank", "header"}
                         THEN afterEnd \cup {i} ELSE afterEnd
  /\ readInside' = IF inActionSection THEN readInside \cup {i} ELSE readInside
  /\ UNCHANGED <<lines, attendees, result, pc, lastCall>>
  /\ UNCHANGED syncVars

\* if (!line) continue;
SkipBlank ==
  /\ AtKind("blank")
  /\ Advance

\* a header line, lines 116-119
EnterSection ==
  /\ AtKind("header")
  /\ Advance

\* a terminator line inside a section, lines 122-125
LeaveSection ==
  /\ AtKind("end")
  /\ Advance

\* an owner-prefix line inside a section, lines 128-139
OwnerLine ==
  /\ AtKind("owner")
  /\ Advance

\* any other line inside a section, lines 142-158
InsideLine ==
  /\ AtKind("inside")
  /\ Advance

\* any other line outside a section, lines 161-175
OutsideLine ==
  /\ AtKind("outside")
  /\ Advance

\* the loop is over: deduplicate and return, lines 178-185
Return ==
  /\ pc = "scan"
  /\ i = Len(lines)
  /\ result' = Dedup(items)
  /\ pc' = "returned"
  /\ UNCHANGED <<lines, attendees, i, inActionSection, currentOwner, items, lastCall,
                 closed, afterEnd, readInside>>
  /\ UNCHANGED syncVars

\* the caller calls again with the same arguments
CallAgain ==
  /\ pc = "returned"
  /\ lastCall' = <<[lines |-> lines, attendees |-> attendees, result |-> result]>>
  /\ Enter(lines, attendees)

\* the caller calls with other arguments (the next meeting)
CallNext ==
  /\ pc = "returned"
  /\ \E ls \in NextTexts, names \in AttendeeLists :
       /\ <<ls, names>> # <<lines, attendees>>
       /\ Enter(ls, names)
  /\ lastCall' = <<>>

Next ==
  \/ SkipBlank
  \/ EnterSection
  \/ LeaveSection
  \/ OwnerLine
  \/ InsideLine
  \/ OutsideLine
  \/ Return
  \/ CallAgain
  \/ CallNext

(***************************************************************************)
(* The sync run of sync.js and the invocations of update.js, over the two  *)
(* files they share.  A stored action item carries the fields the code     *)
(* writes that do not come from the clock, and src, a history field naming *)
(* the document it was extracted from ("manual" for update.js).            *)
(***************************************************************************)

MaxItems == 2      \* update.js --add is followed while the store has fewer items
MaxMeetings == 2   \* update.js --add-meeting is followed while the log is shorter

EmptyStore == [actionItems |-> <<>>, meetings |-> <<>>]

NoStateFile == [exists |-> FALSE, processedMeetings |-> <<>>]

\* loadData(), lines 39-41
loadData == dataFile

\* loadSyncState(), lines 48-51
loadSyncState ==
  IF stateFile.exists THEN [processedMeetings |-> stateFile.processedMeetings]
  ELSE [processedMeetings |-> <<>>]

\* the members of an array
Members(seq) == {seq[k] : k \in 1..Len(seq)}

\* a variant of FindNew that leaves out the processedSet filter
FindNewIgnoringProcessed(processed) ==
  SortByCreated({m \in MeetingIds : docState[m] = "ready"})

\* const newMeetings, lines 209-214: documents present, not deleted, not
\* processed, with panels, by created_at
FindNew(processed) ==
  SortByCreated({m \in MeetingIds : docState[m] = "ready" /\ m \notin processed})

\* the for loop at lines 246-264 over extracted[k..]
RECURSIVE PushItems(_, _, _, _)
PushItems(its, m, extracted, k) ==
  IF k > Len(extracted) THEN its
  ELSE PushItems(Append(its, [id |-> nextId(its),
                              item |-> extracted[k].item,
                              owner |-> extracted[k].owner,
                              status |-> "open",
                              meetingTitle |-> TitleOf(m),
                              meetingDate |-> Catalog[m].date,
                              src |-> m]),
                 m, extracted, k + 1)

\* lines 270-277
LogMeeting(ms, m) ==
  IF \E k \in 1..Len(ms) : ms[k].title = TitleOf(m) /\ ms[k].date = Catalog[m].date
    THEN ms
  ELSE Append(ms, [title |-> TitleOf(m), date |-> Catalog[m].date,
                   participants |-> Prepared[m].attendees,
                   actionItemCount |-> Len(Prepared[m].extracted)])

\* processedSet.add(id)
SetAdd(seq, m) == IF m \in Members(seq) THEN seq ELSE Append(seq, m)

\* the locals of run() when no run is going on
NoRun ==
  /\ data = EmptyStore
  /\ processedSet = <<>>
  /\ newMeetings = <<>>
  /\ mi = 1
  /\ totalNewItems = 0

\* the process ends: its locals are gone
DropRun ==
  /\ data' = EmptyStore
  /\ processedSet' = <<>>
  /\ newMeetings' = <<>>
  /\ mi' = 1
  /\ totalNewItems' = 0

SyncQuiet ==
  /\ docState = [m \in MeetingIds |-> "bare"]
  /\ dataFile = EmptyStore
  /\ stateFile = NoStateFile
  /\ repo = "pushed"
  /\ rpc = "idle"
  /\ NoRun
  /\ outcome = "none"

ScanQuiet ==
  /\ lines = <<>>
  /\ attendees = <<>>
  /\ i = 0
  /\ inActionSection = InitScan.inActionSection
  /\ currentOwner = InitScan.currentOwner
  /\ items = InitScan.items
  /\ result = <<>>
  /\ pc = "returned"
  /\ lastCall = <<>>
  /\ closed = FALSE
  /\ afterEnd = {}
  /\ readInside = {}

files == <<dataFile, stateFile, repo>>
runLocals == <<data, processedSet, newMeetings, mi, totalNewItems>>
cache == <<docState>>

\* Granola adds the AI panels of a document
GranolaSummarises ==
  /\ rpc = "idle"
  /\ \E m \in MeetingIds :
       /\ docState[m] = "bare"
       /\ docState' = [docState EXCEPT ![m] = "ready"]
  /\ UNCHANGED <<files, rpc, runLocals, outcome, scanVars>>

\* the user deletes a document: deleted_at is set
GranolaDeletes ==
  /\ rpc = "idle"
  /\ \E m \in MeetingIds :
       /\ docState[m] \in {"bare", "ready"}
       /\ docState' = [docState EXCEPT ![m] = "deleted"]
  /\ UNCHANGED <<files, rpc, runLocals, outcome, scanVars>>

\* a variant of SyncCacheError that goes on to write the state file
SyncCacheErrorWrites ==
  /\ rpc = "idle"
  /\ rpc' = "done"
  /\ outcome' = "error"
  /\ stateFile' = [exists |-> TRUE, processedMeetings |-> loadSyncState.processedMeetings]
  /\ UNCHANGED <<cache, dataFile, repo, runLocals, scanVars>>

\* run(): loadGranolaState throws, the cache file being missing or not
\* parseable at this moment, lines 193-199
SyncCacheError ==
  /\ rpc = "idle"
  /\ rpc' = "done"
  /\ outcome' = "error"
  /\ UNCHANGED <<cache, files, runLocals, scanVars>>

\* run(): nothing to process, lines 201-219
SyncNothingNew ==
  /\ rpc = "idle"
  /\ FindNew(Members(loadSyncState.processedMeetings)) = <<>>
  /\ rpc' = "done"
  /\ outcome' = "nothing"
  /\ UNCHANGED <<cache, files, runLocals, scanVars>>

\* run(): the files are loaded and new meetings are found, lines 201-223
SyncFound ==
  /\ rpc = "idle"
  /\ FindNew(Members(loadSyncState.processedMeetings)) # <<>>
  /\ data' = loadData
  /\ processedSet' = loadSyncState.processedMeetings
  /\ newMeetings' = FindNew(Members(loadSyncState.processedMeetings))
  /\ mi' = 1
  /\ totalNewItems' = 0
  /\ rpc' = "loop"
  /\ outcome' = "found"
  /\ UNCHANGED <<cache, files, scanVars>>

\* one round of the for loop, lines 225-281
ProcessMeeting ==
  /\ rpc = "loop"
  /\ mi <= Len(newMeetings)
  /\ LET m == newMeetings[mi]
         extracted == Prepared[m].extracted
     IN /\ data' = [actionItems |-> PushItems(data.actionItems, m, extracted, 1),
                    meetings |-> LogMeeting(data.meetings, m)]
        /\ totalNewItems' = totalNewItems + Len(extracted)
        /\ processedSet' = SetAdd(processedSet, m)
  /\ mi' = mi + 1
  /\ UNCHANGED <<cache, files, rpc, newMeetings, outcome, scanVars>>

\* saveSyncState(syncState), lines 284-285
SaveSyncState ==
  /\ rpc = "loop"
  /\ mi > Len(newMeetings)
  /\ stateFile' = [exists |-> TRUE, processedMeetings |-> processedSet]
  /\ rpc' = "saveData"
  /\ UNCHANGED <<cache, dataFile, repo, runLocals, outcome, scanVars>>

\* saveData(data) and the test before the git block, lines 286-289
SaveData ==
  /\ rpc = "saveData"
  /\ dataFile' = data
  /\ repo' = "dirty"
  /\ rpc' = IF totalNewItems > 0 \/ Len(newMeetings) > 0 THEN "gitAdd" ELSE "done"
  /\ outcome' = "saved"
  /\ UNCHANGED <<cache, stateFile, runLocals, scanVars>>

\* git add data.json
GitAdd ==
  /\ rpc = "gitAdd"
  /\ rpc' = "gitCommit"
  /\ UNCHANGED <<cache, files, runLocals, outcome, scanVars>>

\* git commit
GitCommit ==
  /\ rpc = "gitCommit"
  /\ repo' = "committed"
  /\ rpc' = "gitPush"
  /\ UNCHANGED <<cache, dataFile, stateFile, runLocals, outcome, scanVars>>

\* git push, line 297-298
GitPush ==
  /\ rpc = "gitPush"
  /\ repo' = "pushed"
  /\ rpc' = "done"
  /\ outcome' = "pushed"
  /\ UNCHANGED <<cache, dataFile, stateFile, runLocals, scanVars>>

\* a variant of GitFails that starts the git block over
GitFailsRetries ==
  /\ rpc \in {"gitAdd", "gitCommit", "gitPush"}
  /\ rpc' = "gitAdd"
  /\ \E msg \in {"no changes", "push failed"} : outcome' = msg
  /\ UNCHANGED <<cache, files, runLocals, scanVars>>

\* one of the three commands throws: the catch block, lines 299-306
GitFails ==
  /\ rpc \in {"gitAdd", "gitCommit", "gitPush"}
  /\ rpc' = "done"
  /\ \E msg \in {"no changes", "push failed"} : outcome' = msg
  /\ UNCHANGED <<cache, files, runLocals, scanVars>>

\* run() returns and the process ends
SyncExit ==
  /\ rpc = "done"
  /\ rpc' = "idle"
  /\ DropRun
  /\ outcome' = "none"
  /\ UNCHANGED <<cache, files, scanVars>>

\* the process dies inside a run: a write throws, the machine goes down
SyncCrash ==
  /\ rpc \notin {"idle", "done"}
  /\ rpc' = "idle"
  /\ DropRun
  /\ outcome' = "none"
  /\ UNCHANGED <<cache, files, scanVars>>

\* the arguments update.js is called with
AddArgs == {[item |-> "Book the venue", owner |-> "Ally"]}
CompleteArgs == {1, 9}
MeetingArgs ==
  {[title |-> "Standup", date |-> "2026-01-05", participants |-> <<"Blake">>,
    actionItemCount |-> 0]}

\* the try block at the end of update.js, lines 79-86: how far it got
GitOutcomes == {"dirty", "committed", "pushed"}

\* update.js writes d and runs the git block; one invocation runs at a time,
\* and not during a sync run
SaveAndPublish(d, got) ==
  /\ rpc = "idle"
  /\ dataFile' = d
  /\ repo' = got
  /\ UNCHANGED <<cache, stateFile, rpc, runLocals, outcome, scanVars>>

\* node update.js --add '<json>', lines 45-54
UpdateAdd ==
  /\ Len(dataFile.actionItems) < MaxItems
  /\ \E arg \in AddArgs, got \in GitOutcomes :
       SaveAndPublish([loadData EXCEPT !.actionItems =
                         Append(@, [id |-> nextId(@), item |-> arg.item,
                                    owner |-> arg.owner, status |-> "open",
                                    meetingTitle |-> "", meetingDate |-> "",
                                    src |-> "manual"])], got)

\* found.status = "completed" on the first item with the id
CompleteFirst(its, id) ==
  IF \E k \in 1..Len(its) : its[k].id = id
    THEN LET k == CHOOSE k \in 1..Len(its) :
                    its[k].id = id /\ \A j \in 1..(k - 1) : its[j].id # id
         IN [its EXCEPT ![k].status = "completed"]
  ELSE its

\* node update.js --complete <id>, lines 55-65
UpdateComplete ==
  /\ rpc = "idle"
  /\ \E id \in CompleteArgs, got \in GitOutcomes :
       SaveAndPublish([loadData EXCEPT !.actionItems = CompleteFirst(@, id)], got)

\* node update.js --add-meeting '<json>', lines 66-70
UpdateAddMeeting ==
  /\ Len(dataFile.meetings) < MaxMeetings
  /\ \E arg \in MeetingArgs, got \in GitOutcomes :
       SaveAndPublish([loadData EXCEPT !.meetings = Append(@, arg)], got)

\* a store that update.js filled earlier: one item, its id not the item count
SeededStore ==
  [actionItems |-> <<[id |-> 4, item |-> "Order the badges", owner |-> "Ally",
                      status |-> "open", meetingTitle |-> "", meetingDate |-> "",
                      src |-> "manual"]>>,
   meetings |-> <<>>]

\* the files before the first run: data.json empty or seeded, no state file
SyncStart ==
  /\ docState = [m \in MeetingIds |-> "bare"]
  /\ dataFile \in {EmptyStore, SeededStore}
  /\ stateFile = NoStateFile
  /\ repo = "pushed"
  /\ rpc = "idle"
  /\ NoRun
  /\ outcome = "none"

SyncInit == ScanQuiet /\ SyncStart

SyncNext ==
  \/ GranolaSummarises
  \/ GranolaDeletes
  \/ SyncCacheError
  \/ SyncNothingNew
  \/ SyncFound
  \/ ProcessMeeting
  \/ SaveSyncState
  \/ SaveData
  \/ GitAdd
  \/ GitCommit
  \/ GitPush
  \/ GitFails
  \/ SyncExit
  \/ SyncCrash
  \/ UpdateAdd
  \/ UpdateComplete
  \/ UpdateAddMeeting

SyncSpec == SyncInit /\ [][SyncNext]_vars

Init == ScanInit /\ SyncQuiet

\* a first call on a text of texts with a list of lists
ScanStart(texts, lists) ==
  /\ lines \in texts
  /\ attendees \in lists
  /\ i = 0
  /\ inActionSection = InitScan.inActionSection
  /\ currentOwner = InitScan.currentOwner
  /\ items = InitScan.items
  /\ result = <<>>
  /\ pc = "scan"
  /\ lastCall = <<>>
  /\ closed = FALSE
  /\ afterEnd = {}
  /\ readInside = {}

SectionInit == ScanStart(SectionTexts, SectionLists) /\ SyncQuiet

SectionSpec == SectionInit /\ [][Next]_vars

CarryInit == ScanStart(CarryTexts, SectionLists) /\ SyncQuiet

CarrySpec == CarryInit /\ [][Next]_vars

Spec == Init /\ [][Next]_vars

(***************************************************************************)
(* Properties of extractActionItems, checked under Spec.                   *)
(***************************************************************************)

\* the facts of the k-th line (1-based) of the current call
LineFacts(k) == FactsOf(lines[k], attendees)

\* the candidates and the returned items of the current call
Emitted == {items[k] : k \in 1..Len(items)} \cup {result[k] : k \in 1..Len(result)}

\* first and last character of every candidate text of the pool
TextEnds == [t \in PoolTexts |-> [first |-> Ch(t, 1), last |-> Ch(t, Len(t))]]

\* per pool line: whether a line terminator stands inside the trimmed line, and
\* the trimmed line without one leading bullet marker and the whitespace after it
LineShape ==
  [raw \in LinePool |->
     LET line == trim(raw) IN
       [innerTerminator |-> DotRunEnd(line, 1) <= Len(line),
        unmarked |-> IF Ch(line, 1) \in {"-", "*"}
                       THEN CHOOSE t \in {SliceFrom(line, k) : k \in 2..(Len(line) + 1)} :
                              /\ Ch(t, 1) \notin WhiteSpace
                              /\ \A j \in 2..(Len(line) - Len(t)) : Ch(line, j) \in WhiteSpace
                       ELSE line]]

\* per pool line and attendee list: the positions of the attendees the line names
Mentioned ==
  [raw \in LinePool |->
     [names \in AttendeeLists |-> {k \in 1..Len(names) : mentions(trim(raw), names[k])}]]

\* the claimed key of a text: the first 50 characters of the lowercased text
ClaimKeys ==
  [t \in PoolTexts |->
     LET l == toLowerCase(t) IN IF Len(l) <= 50 THEN l ELSE SubSeq(l, 1, 50)]

\* no line of the current call is a header or a name-plus-modal sentence
NoHeaderNoSentence ==
  \A k \in 1..Len(lines) : ~LineFacts(k).header /\ ~LineFacts(k).action

\* C1: when no line matches a header pattern and no line matches the
\* name-plus-modal pattern, no candidate is ever pushed and the returned list is
\* empty, whatever the attendees and even with owner-prefix or terminator lines.
C1_EmptyWithoutHeaderOrSentence ==
  NoHeaderNoSentence => (items = <<>> /\ result = <<>>)

C1_Witness ==
  /\ pc = "returned"
  /\ NoHeaderNoSentence
  /\ result = <<>>
  /\ \E k \in 1..Len(lines) : LineFacts(k).prefix /\ LineFacts(k).rest # ""
  /\ \E k \in 1..Len(lines) : LineFacts(k).end

\* C2: every candidate and every returned item has a non-empty owner, which is
\* the prefix name captured on its own line (owner-prefix rule), a prefix name
\* captured on an earlier line, an attendee's full name or "Blake" (in-section
\* rule), or the leading words of its line or "Blake" (standalone rule).
C2_OwnerNonEmpty ==
  \A it \in Emitted :
    /\ it.owner # ""
    /\ it.rule = "owner" => it.owner = LineFacts(it.line + 1).prefixName
    /\ it.rule = "plain" =>
         \/ it.owner = "Blake"
         \/ \E k \in 1..Len(attendees) : it.owner = attendees[k]
         \/ \E k \in 1..it.line : LineFacts(k).prefix /\ it.owner = LineFacts(k).prefixName
    /\ it.rule = "standalone" =>
         \/ it.owner = "Blake"
         \/ LitAt(LineFacts(it.line + 1).line, 1, it.owner)

C2_Witness ==
  /\ pc = "returned"
  /\ \E a \in Emitted : a.rule = "plain" /\ a.owner = "Blake"
  /\ \E b \in Emitted : b.rule = "owner"

\* C3 as claimed: every returned text is non-empty, has no leading or trailing
\* whitespace and does not begin with a bullet marker.
C3_TextTrimmedNoBullet ==
  \A k \in 1..Len(result) :
    /\ result[k].item # ""
    /\ TextEnds[result[k].item].first \notin WhiteSpace \cup {"-", "*"}
    /\ TextEnds[result[k].item].last \notin WhiteSpace

\* C3 as amended: every text is non-empty and has no leading whitespace; a text of
\* the owner-prefix or in-section rule has no trailing whitespace; a standalone
\* text does not begin with a bullet marker and ends in whitespace only when a
\* line terminator stands inside its line; the in-section text is the line without
\* one leading bullet marker and the whitespace after it, nothing more.
C3_TextShape ==
  \A it \in Emitted :
    /\ it.item # ""
    /\ TextEnds[it.item].first \notin WhiteSpace
    /\ it.rule \in {"owner", "plain"} => TextEnds[it.item].last \notin WhiteSpace
    /\ it.rule = "plain" => it.item = LineShape[lines[it.line + 1]].unmarked
    /\ it.rule = "standalone" =>
         /\ TextEnds[it.item].first \notin {"-", "*"}
         /\ TextEnds[it.item].last \in WhiteSpace =>
              LineShape[lines[it.line + 1]].innerTerminator

C3_Witness ==
  /\ pc = "returned"
  /\ \E k \in 1..Len(result) :
       result[k].rule = "plain" /\ TextEnds[result[k].item].first \in {"-", "*"}
  /\ \E k \in 1..Len(result) :
       result[k].rule = "owner" /\ TextEnds[result[k].item].first \in {"-", "*"}

\* the candidates that have no earlier candidate with the same claimed key
FirstOfKey(its) ==
  {j \in 1..Len(its) : \A k \in 1..(j - 1) : ClaimKeys[its[k].item] # ClaimKeys[its[j].item]}

\* C4: the returned list is the subsequence of the candidates that keeps, per key
\* (first 50 characters of the lowercased text), the first candidate and drops the
\* later ones, in scan order; no two returned items share a key; the pass applied
\* to its own output changes nothing.
C4_DedupKeepsFirst ==
  pc = "returned" =>
    LET K == FirstOfKey(items) IN
      /\ Len(result) = Cardinality(K)
      /\ \A n \in 1..Len(result) :
           result[n] = items[CHOOSE j \in K : Cardinality({k \in K : k <= j}) = n]
      /\ \A a, b \in 1..Len(result) :
           a # b => ClaimKeys[result[a].item] # ClaimKeys[result[b].item]
      /\ Dedup(result) = result

C4_Witness ==
  /\ pc = "returned"
  /\ Len(items) = 2
  /\ items[1].item # items[2].item
  /\ result = <<items[1]>>

\* C5: every standalone candidate is the only candidate of its line, and its owner
\* is the known first name the pattern matched, the name its text begins with.
C5_StandaloneOwnerIsName ==
  \A it \in Emitted :
    it.rule = "standalone" =>
      /\ toLowerCase(it.owner) \in KnownNames
      /\ LitAt(it.item, 1, it.owner)
      /\ Cardinality({k \in 1..Len(items) : items[k].line = it.line}) = 1

\* C6 as claimed: no returned item comes from a line read after a terminator
\* closed the section and before the next header.
C6_NothingAfterTerminator ==
  \A k \in 1..Len(result) : result[k].line \notin afterEnd

\* C6 as amended: a line read after a terminator closed the section and before the
\* next header yields no item through the owner-prefix or in-section rule; it
\* yields one only through the standalone rule, when it matches the
\* name-plus-modal pattern.
C6_OnlySentencesAfterTerminator ==
  /\ closed => ~inActionSection
  /\ \A it \in Emitted :
       it.line \in afterEnd =>
         it.rule = "standalone" /\ LineFacts(it.line + 1).action

C6_Witness ==
  /\ pc = "returned"
  /\ \E j \in afterEnd :
       /\ LineFacts(j + 1).long
       /\ ~LineFacts(j + 1).action
       /\ \A it \in Emitted : it.line # j

\* the first attendee, in list order, that the line of candidate it names
FirstMentioned(it) ==
  LET hits == Mentioned[lines[it.line + 1]][attendees]
  IN attendees[CHOOSE k \in hits : \A j \in hits : k <= j]

\* C7 as claimed: an in-section candidate whose line names an attendee has the
\* first such attendee's full name as owner, whatever lines came earlier.
C7_AttendeeOwnerAlways ==
  \A it \in Emitted :
    (it.rule = "plain" /\ Mentioned[lines[it.line + 1]][attendees] # {}) =>
      it.owner = FirstMentioned(it)

\* C7 as amended: as long as no owner-prefix line has set currentOwner in this
\* call, an in-section candidate (a line longer than 10 characters) whose line
\* names an attendee has the first such attendee's full name as owner.
C7_AttendeeOwnerUnlessCarried ==
  currentOwner = <<>> =>
    \A it \in Emitted :
      (it.rule = "plain" /\ Mentioned[lines[it.line + 1]][attendees] # {}) =>
        it.owner = FirstMentioned(it)

C7_Witness ==
  /\ pc = "returned"
  /\ currentOwner = <<>>
  /\ attendees = <<"Jenna Smith", "Cole Diaz">>
  /\ \E k \in 1..Len(result) :
       /\ result[k].rule = "plain"
       /\ result[k].item = "Jenna will send invites"
       /\ result[k].owner = "Jenna Smith"

\* C8: a call starts with inActionSection false, currentOwner null and no
\* candidates; what it returns is what a first call on the same arguments returns,
\* whatever calls came before; and a call repeated with the same arguments returns
\* the same ordered list.
C8_ResultDependsOnArgumentsOnly ==
  /\ (pc = "scan" /\ i = 0) =>
       (~inActionSection /\ currentOwner = <<>> /\ items = <<>>)
  /\ pc = "returned" => result = extractActionItems(lines, attendees)
  /\ (pc = "returned" /\ lastCall # <<>>) =>
       (lastCall[1].lines = lines /\ lastCall[1].attendees = attendees
          => result = lastCall[1].result)

C8_Witness ==
  /\ pc = "returned"
  /\ lastCall # <<>>
  /\ lastCall[1].lines = lines
  /\ inActionSection
  /\ currentOwner # <<>>
  /\ Len(result) >= 2

(***************************************************************************)
(* Properties of the sync run and of update.js, checked under SyncSpec.    *)
(***************************************************************************)

\* the ids a run starting now would read from .sync-state.json
Persisted == Members(loadSyncState.processedMeetings)

\* how many items of a list were extracted from document m
FromDoc(its, m) == Cardinality({k \in 1..Len(its) : its[k].src = m})

\* C9: the loop extracts only from meetings whose id is not in the persisted
\* processed set; when a run has finished, every meeting it handled is in the
\* persisted processed set; and the store, on disk and in memory, holds the
\* items of a meeting either not at all or exactly once.
C9_ProcessedOnce ==
  /\ rpc = "loop" => \A k \in 1..Len(newMeetings) : newMeetings[k] \notin Persisted
  /\ rpc = "done" => \A k \in 1..Len(newMeetings) : newMeetings[k] \in Persisted
  /\ \A m \in MeetingIds :
       /\ FromDoc(dataFile.actionItems, m) \in {0, Len(Prepared[m].extracted)}
       /\ FromDoc(data.actionItems, m) \in {0, Len(Prepared[m].extracted)}

C9_Witness ==
  /\ rpc = "done"
  /\ newMeetings = <<"m2">>
  /\ Persisted = {"m1", "m2"}
  /\ FromDoc(dataFile.actionItems, "m1") = 2
  /\ FromDoc(dataFile.actionItems, "m2") = 1

\* C10: the meetings collection of data.json never holds two entries with the
\* same title and date.
C10_NoDuplicateMeetings ==
  \A a, b \in 1..Len(dataFile.meetings) :
    (dataFile.meetings[a].title = dataFile.meetings[b].title
       /\ dataFile.meetings[a].date = dataFile.meetings[b].date) => a = b

\* the part of C10 the sync run keeps: a run never adds an entry whose title and
\* date are already in the collection it loaded
SyncLogsOnce ==
  \A a, b \in 1..Len(data.meetings) :
    (data.meetings[a].title = data.meetings[b].title
       /\ data.meetings[a].date = data.meetings[b].date
       /\ a # b) =>
      \E c, d \in 1..Len(dataFile.meetings) :
        /\ c # d
        /\ dataFile.meetings[c].title = dataFile.meetings[d].title
        /\ dataFile.meetings[c].date = dataFile.meetings[d].date

\* the ids of a list of items, in order
IdsOf(its) == [k \in 1..Len(its) |-> its[k].id]

\* a list of ids is positive and strictly increasing
Increasing(ids) ==
  /\ \A k \in 1..Len(ids) : ids[k] >= 1
  /\ \A a, b \in 1..Len(ids) : a < b => ids[a] < ids[b]

\* C11: the ids of the action items, on disk and in memory, are positive and
\* strictly increasing in the order the items were added: every added item has
\* an id above every id before it (so ids are pairwise distinct), and an item
\* added to an empty store has id 1.
C11_IdsIncrease ==
  /\ Increasing(IdsOf(dataFile.actionItems))
  /\ Increasing(IdsOf(data.actionItems))
  /\ (dataFile.actionItems # <<>> /\ dataFile.actionItems[1].id # 1) =>
       dataFile.actionItems[1] = SeededStore.actionItems[1]

C11_Witness ==
  /\ rpc = "idle"
  /\ IdsOf(dataFile.actionItems) = <<4, 5, 6>>
  /\ dataFile.actionItems[2].item = "Book the venue"
  /\ dataFile.actionItems[3].src = "m2"

\* C12: a run that finds the cache missing or unreadable logs the error and
\* goes straight to its end: it has loaded nothing, it is at no save or git
\* step, and neither the step that reports the error nor the step that ends the
\* run changes data.json, .sync-state.json or the repository.
C12_CacheErrorWritesNothing ==
  /\ [](outcome = "error" => (rpc = "done" /\ NoRun))
  /\ [][(outcome = "error" \/ outcome' = "error") => UNCHANGED files]_vars
  /\ [][outcome = "error" => (rpc' = "idle" /\ outcome' = "none")]_vars

C12_Witness ==
  /\ rpc = "done"
  /\ outcome = "error"
  /\ stateFile.exists
  /\ Len(dataFile.actionItems) >= 2
  /\ repo = "committed"

\* the sync run is at one of its three git commands
AtGit == rpc \in {"gitAdd", "gitCommit", "gitPush"}

\* what the catch block of the sync run logs
GitFailureLogged == outcome \in {"no changes", "push failed"}

ReadsLine == pc = "scan" /\ i < Len(lines) /\ i' = i + 1

\* the step pushes nothing and leaves the carried owner alone
Consumed == items' = items /\ currentOwner' = currentOwner

\* C14: a call starts outside; a header line sets inActionSection in either
\* state and is consumed, also when it matches a terminator pattern too; a
\* terminator line read inside clears inActionSection and is consumed; blank
\* lines and all other lines leave inActionSection as it is.
C14_TwoStateMachine ==
  /\ []((pc = "scan" /\ i = 0) => ~inActionSection)
  /\ [][ReadsLine =>
          LET f == CurFacts
          IN IF f.line = "" THEN inActionSection' = inActionSection /\ Consumed
             ELSE IF f.header THEN inActionSection' = TRUE /\ Consumed
             ELSE IF f.end /\ inActionSection THEN inActionSection' = FALSE /\ Consumed
             ELSE inActionSection' = inActionSection]_vars

C14_Witness ==
  /\ pc = "returned"
  /\ lines = <<"Next Steps", "Next Steps & owners", "Jenna will send invites">>
  /\ inActionSection
  /\ Len(result) = 1
  /\ result[1].rule = "plain"

\* the lines read so far by the current call, as 0-based indices
ReadSoFar == 0..(i - 1)

\* the branch the loop took on the line at index k
ReadKind(k) == LineKind(LineFacts(k + 1), k \in readInside)

\* the candidates pushed for the line at index k by a rule
PushedBy(k, rule) == {j \in 1..Len(items) : items[j].line = k /\ items[j].rule = rule}

Latest(ks) == CHOOSE k \in ks : \A j \in ks : j <= k

\* the owner-prefix lines read so far that were not taken as header or terminator
PrefixLinesRead ==
  {k \in ReadSoFar :
     LET f == LineFacts(k + 1)
     IN f.line # "" /\ f.prefix /\ ~f.header /\ ~(f.end /\ k \in readInside)}

\* the owner-prefix lines read so far inside a section (the test of line 129)
OwnerLinesRead == {k \in PrefixLinesRead : k \in readInside}

\* C16 as stated: currentOwner is the name captured on the latest owner-prefix
\* line read, whether that line was read inside or outside a section.
C16_OwnerPrefixSetsOwnerAnywhere ==
  PrefixLinesRead # {} =>
    currentOwner = <<LineFacts(Latest(PrefixLinesRead) + 1).prefixName>>

\* C16: currentOwner is null until an owner-prefix line is read inside a
\* section and then the name captured on the latest such line; an owner-prefix
\* line read outside a section leaves it alone.  An owner-prefix line pushes a
\* candidate (the trimmed text after the colon, the captured name) exactly when
\* it is read inside a section and text remains.  "Next Steps" followed by
\* "Blake: send the deck" returns the one item "send the deck" of "Blake".
C16_OwnerPrefixInsideOnly ==
  /\ currentOwner = IF OwnerLinesRead = {} THEN <<>>
                    ELSE <<LineFacts(Latest(OwnerLinesRead) + 1).prefixName>>
  /\ \A k \in ReadSoFar :
       PushedBy(k, "owner") # {} <=> (k \in OwnerLinesRead /\ LineFacts(k + 1).rest # "")
  /\ \A j \in 1..Len(items) :
       items[j].rule = "owner" =>
         /\ items[j].item = LineFacts(items[j].line + 1).rest
         /\ items[j].owner = LineFacts(items[j].line + 1).prefixName
  /\ (pc = "returned" /\ lines = <<"Next Steps", "Blake: send the deck">>) =>
       (Len(result) = 1 /\ result[1].item = "send the deck" /\ result[1].owner = "Blake")

C16_Witness ==
  /\ pc = "returned"
  /\ lines = <<"Blake: send the deck", "Next Steps", "Jenna will send invites">>
  /\ currentOwner = <<>>
  /\ Len(result) = 1
  /\ result[1].owner = "Jenna Smith"

\* C17: a line of at most 10 characters after trimming that is read inside a
\* section has no candidate, whatever its form.
C17_ShortLinesDropped ==
  \A k \in ReadSoFar \cap readInside :
    ~LineFacts(k + 1).long => \A j \in 1..Len(items) : items[j].line # k

\* C18: no candidate belongs to a line that matches a header pattern or a
\* terminator pattern, wherever the line was read.
C18_NoItemForHeaderOrTerminator ==
  \A j \in 1..Len(items) :
    /\ ~LineFacts(items[j].line + 1).header
    /\ ~LineFacts(items[j].line + 1).end

(***************************************************************************)
(* The carried owner, checked under CarrySpec.                             *)
(***************************************************************************)

\* the owner-prefix lines read inside a section before the line at index k
OwnerLinesBefore(k) == {j \in OwnerLinesRead : j < k}

\* C19: within a call no line resets a set currentOwner to null, and blank,
\* header and terminator lines leave currentOwner as it is; every candidate of
\* the in-section rule read after an owner-prefix line inside a section has the
\* name of the latest such line as owner, in whatever section it stands.
C19_OwnerCarried ==
  /\ [][ReadsLine =>
          /\ currentOwner # <<>> => currentOwner' # <<>>
          /\ LineKind(CurFacts, inActionSection) \in {"blank", "header", "end"} =>
               currentOwner' = currentOwner]_vars
  /\ [](\A j \in 1..Len(items) :
          (items[j].rule = "plain" /\ OwnerLinesBefore(items[j].line) # {}) =>
            items[j].owner =
              LineFacts(Latest(OwnerLinesBefore(items[j].line)) + 1).prefixName)

C19_Witness ==
  /\ pc = "returned"
  /\ lines = <<"Next Steps", "Blake: send the deck", "  ## Summary", "Next Steps",
               "Jenna will send invites">>
  /\ currentOwner = <<"Blake">>
  /\ Len(result) = 2
  /\ result[2].rule = "plain"
  /\ result[2].owner = "Blake"

(***************************************************************************)
(* The order of the two writes, checked under SyncSpec.                    *)
(***************************************************************************)

\* data.json holds the extracted items and the log entry of document m
DataHolds(m) ==
  /\ FromDoc(dataFile.actionItems, m) = Len(Prepared[m].extracted)
  /\ \E k \in 1..Len(dataFile.meetings) :
       /\ dataFile.meetings[k].title = TitleOf(m)
       /\ dataFile.meetings[k].date = Catalog[m].date

\* C20: whenever no run is going on or a run has reached its end, every
\* meeting id in .sync-state.json has its items and its log entry in data.json.
C20_ProcessedNotAheadOfData ==
  rpc \in {"idle", "done"} => \A m \in Persisted : DataHolds(m)

=============================================================================
